---- MODULE Spec2Model ----
(***************************************************************************)
(* Model of cloud/scope/machine.go: the translation of a GCPMachine spec   *)
(* plus cluster context into a compute instance descriptor.                *)
(*                                                                         *)
(* Go strings are modelled as sequences of one-character strings, so that  *)
(* strings.Contains, strings.Count, strings.Split, strings.HasPrefix and   *)
(* path.Join act on characters exactly as the library does.  A Go pointer  *)
(* to a string, int64 or bool is modelled as a sequence of length 0 (nil)  *)
(* or 1 (pointer to the value).                                            *)
(*                                                                         *)
(* Two variables hold what the Go runtime decides and keeps besides the    *)
(* objects: the order in which the next range over the cluster's failure-  *)
(* domain map yields its keys (rangeOrder), and the cells of the array of  *)
(* the spec's additional network tags that lie beyond the slice's length   *)
(* (tagsArray).                                                            *)
(***************************************************************************)
EXTENDS Integers, Sequences, FiniteSets, TLC

VARIABLES Machine, GCPMachine, ClusterGetter, ret, rangeOrder, tagsArray

vars == <<Machine, GCPMachine, ClusterGetter, ret, rangeOrder, tagsArray>>

(***************************************************************************)
(* Pointers                                                                *)
(***************************************************************************)
Nil == <<>>
Ptr(v) == <<v>>
IsNil(p) == Len(p) = 0
Deref(p) == p[1]
Opt(S) == {Nil} \cup {Ptr(v) : v \in S}

(***************************************************************************)
(* String literals of the source                                           *)
(***************************************************************************)
Slash == "/"
Comma == ","
Semicolon == ";"
Colon == ":"
Empty == <<>>
PROJECTS == <<"p","r","o","j","e","c","t","s">>
REGIONS == <<"r","e","g","i","o","n","s">>
SUBNETWORKS == <<"s","u","b","n","e","t","w","o","r","k","s">>
GLOBAL == <<"g","l","o","b","a","l">>
NETWORKS == <<"n","e","t","w","o","r","k","s">>
ZONES == <<"z","o","n","e","s">>
DISKTYPES == <<"d","i","s","k","T","y","p","e","s">>
MACHINETYPES == <<"m","a","c","h","i","n","e","T","y","p","e","s">>
IMAGES == <<"i","m","a","g","e","s">>
FAMILY == <<"f","a","m","i","l","y">>
AliasesPrefix == <<"a","l","i","a","s","e","s","=">>
AliasMarker == <<",">> \o AliasesPrefix
PdStandardDiskType == <<"p","d","-","s","t","a","n","d","a","r","d">>
PdSsdDiskType == <<"p","d","-","s","s","d">>
LocalSsdDiskType == <<"l","o","c","a","l","-","s","s","d">>

(***************************************************************************)
(* Package strings                                                         *)
(***************************************************************************)
HasPrefix(s, prefix) ==
    /\ Len(s) >= Len(prefix)
    /\ SubSeq(s, 1, Len(prefix)) = prefix

HasSuffix(s, suffix) ==
    /\ Len(s) >= Len(suffix)
    /\ SubSeq(s, Len(s) - Len(suffix) + 1, Len(s)) = suffix

TrimPrefix(s, prefix) ==
    IF HasPrefix(s, prefix) THEN SubSeq(s, Len(prefix) + 1, Len(s)) ELSE s

\* The positions at which substr occurs in s.
Occurrences(s, substr) ==
    {i \in 1..(Len(s) - Len(substr) + 1) : SubSeq(s, i, i + Len(substr) - 1) = substr}

Contains(s, substr) == Occurrences(s, substr) # {}

Min(S) == CHOOSE x \in S : \A y \in S : x <= y

\* strings.Count: the number of non-overlapping instances of a non-empty substr,
\* found scanning from the left.
RECURSIVE Count(_, _)
Count(s, substr) ==
    IF ~Contains(s, substr) THEN 0
    ELSE LET i == Min(Occurrences(s, substr))
         IN  1 + Count(SubSeq(s, i + Len(substr), Len(s)), substr)

\* strings.Split with a one-character separator: the fields between the
\* separators, always at least one.  SplitFrom scans s from position i, the
\* current field having begun at position start.
RECURSIVE SplitFrom(_, _, _, _)
SplitFrom(s, sep, start, i) ==
    IF i > Len(s) THEN <<SubSeq(s, start, Len(s))>>
    ELSE IF s[i] = sep
    THEN <<SubSeq(s, start, i - 1)>> \o SplitFrom(s, sep, i + 1, i + 1)
    ELSE SplitFrom(s, sep, start, i + 1)

Split(s, sep) == SplitFrom(s, sep, 1, 1)

\* strings.Join(elems, sep)
RECURSIVE JoinWith(_, _)
JoinWith(elems, sep) ==
    IF Len(elems) = 0 THEN Empty
    ELSE IF Len(elems) = 1 THEN elems[1]
    ELSE elems[1] \o <<sep>> \o JoinWith(Tail(elems), sep)

(***************************************************************************)
(* Package path                                                            *)
(***************************************************************************)
DotSeg == <<".">>
DotDotSeg == <<".", ".">>

\* The segment stack of path.Clean after reading the segments segs: empty and
\* "." segments are dropped, ".." removes the last kept name, or is kept when a
\* relative path has nothing left to remove.
RECURSIVE CleanSegs(_, _, _)
CleanSegs(segs, out, rooted) ==
    IF Len(segs) = 0 THEN out
    ELSE LET seg == Head(segs)
             rest == Tail(segs)
         IN  IF seg = Empty \/ seg = DotSeg THEN CleanSegs(rest, out, rooted)
             ELSE IF seg = DotDotSeg
                  THEN IF Len(out) > 0 /\ out[Len(out)] # DotDotSeg
                       THEN CleanSegs(rest, SubSeq(out, 1, Len(out) - 1), rooted)
                       ELSE IF rooted THEN CleanSegs(rest, out, rooted)
                       ELSE CleanSegs(rest, Append(out, seg), rooted)
             ELSE CleanSegs(rest, Append(out, seg), rooted)

\* path.Clean
Clean(p) ==
    IF Len(p) = 0 THEN DotSeg
    ELSE LET rooted == p[1] = Slash
             body == JoinWith(CleanSegs(Split(p, Slash), <<>>, rooted), Slash)
         IN  IF rooted THEN <<Slash>> \o body
             ELSE IF Len(body) = 0 THEN DotSeg
             ELSE body

\* path.Join: empty elements are ignored, the rest joined by "/" and cleaned.
PathJoin(elems) ==
    LET kept == SelectSeq(elems, LAMBDA e : Len(e) > 0)
    IN  IF Len(kept) = 0 THEN Empty ELSE Clean(JoinWith(kept, Slash))

(***************************************************************************)
(* Ordering of strings, as used by sort.Strings                            *)
(***************************************************************************)
CharOrder == <<",", "-", ".", "/", "0", "1", "2", "3", "4", "5", "6", "7", "8", "9",
               ":", ";", "=", "A", "B", "C", "D", "E", "F", "G", "H", "I", "J", "K",
               "L", "M", "N", "O", "P", "Q", "R", "S", "T", "U", "V", "W", "X", "Y",
               "Z", "a", "b", "c", "d", "e", "f", "g", "h", "i", "j", "k", "l", "m",
               "n", "o", "p", "q", "r", "s", "t", "u", "v", "w", "x", "y", "z">>

CharRank(c) == CHOOSE i \in 1..Len(CharOrder) : CharOrder[i] = c

RECURSIVE StrLess(_, _)
StrLess(a, b) ==
    IF Len(b) = 0 THEN FALSE
    ELSE IF Len(a) = 0 THEN TRUE
    ELSE IF Head(a) = Head(b) THEN StrLess(Tail(a), Tail(b))
    ELSE CharRank(Head(a)) < CharRank(Head(b))

(***************************************************************************)
(* MachineGetter                                                           *)
(***************************************************************************)
\* The orders in which a range over a map with the keys fd can yield them: Go
\* leaves the order open, and it may differ from one range to the next.
RangeOrders(fd) ==
    {o \in [1..Cardinality(fd) -> fd] :
        \A i, j \in 1..Cardinality(fd) : i # j => o[i] # o[j]}

\* sort.Strings: the same strings in increasing order.
RECURSIVE SortedInsert(_, _)
SortedInsert(z, sorted) ==
    IF Len(sorted) = 0 THEN <<z>>
    ELSE IF StrLess(z, Head(sorted)) THEN <<z>> \o sorted
    ELSE <<Head(sorted)>> \o SortedInsert(z, Tail(sorted))

RECURSIVE SortStrings(_)
SortStrings(zones) ==
    IF Len(zones) = 0 THEN <<>>
    ELSE SortedInsert(Head(zones), SortStrings(Tail(zones)))

\* Zone without the sort: the key the range happens to yield first.
ZoneFirstRanged ==
    IF IsNil(Machine.Spec.FailureDomain)
    THEN LET fd == ClusterGetter.FailureDomains
         IN  IF Cardinality(fd) = 0 THEN Empty
             ELSE rangeOrder[1]
    ELSE Deref(Machine.Spec.FailureDomain)

\* Zone returns the FailureDomain for the GCPMachine: the machine's own one, or
\* the first of the cluster's failure domains after sorting the keys as the
\* range yielded them, or "".
Zone ==
    IF IsNil(Machine.Spec.FailureDomain)
    THEN LET fd == ClusterGetter.FailureDomains
         IN  IF Cardinality(fd) = 0 THEN Empty
             ELSE LET zones == rangeOrder
                  IN  SortStrings(zones)[1]
    ELSE Deref(Machine.Spec.FailureDomain)

\* The orders the runtime can take for the ranges of a call of a method that
\* asks for the zone; a scope whose Zone does not range keeps the order it has.
ZoneRangeOrders ==
    IF IsNil(Machine.Spec.FailureDomain) /\ Cardinality(ClusterGetter.FailureDomains) # 0
    THEN RangeOrders(ClusterGetter.FailureDomains)
    ELSE {rangeOrder}

Project == ClusterGetter.Project

Name == GCPMachine.Name

ControlPlaneRole == <<"c","o","n","t","r","o","l","-","p","l","a","n","e">>
NodeRole == <<"n","o","d","e">>

Role == IF Machine.IsControlPlane THEN ControlPlaneRole ELSE NodeRole

(***************************************************************************)
(* Subnet reference: owning project, network path, subnetwork path         *)
(***************************************************************************)
subnetHasSlashes ==
    IF IsNil(GCPMachine.Spec.Subnet) THEN FALSE
    ELSE Contains(Deref(GCPMachine.Spec.Subnet), <<Slash>>)

\* getProjectFromSubnet without the test that the first segment is "projects":
\* any string with a "/" and a non-empty second segment carries a project.
getProjectFromSubnetAnySlash ==
    IF IsNil(GCPMachine.Spec.Subnet) THEN Nil
    ELSE IF subnetHasSlashes
    THEN LET subnetSlice == Split(Deref(GCPMachine.Spec.Subnet), Slash)
         IN  IF Len(subnetSlice) >= 2 /\ Len(subnetSlice[2]) > 0
             THEN Ptr(subnetSlice[2])
             ELSE Nil
    ELSE Nil

\* getProjectFromSubnet returns the project name, if set in Subnet; nil otherwise.
getProjectFromSubnet ==
    IF IsNil(GCPMachine.Spec.Subnet) THEN Nil
    ELSE IF subnetHasSlashes
    THEN LET subnetSlice == Split(Deref(GCPMachine.Spec.Subnet), Slash)
         IN  IF Len(subnetSlice) >= 2 /\ subnetSlice[1] = PROJECTS /\ Len(subnetSlice[2]) > 0
             THEN Ptr(subnetSlice[2])
             ELSE Nil
    ELSE Nil

getNetworkInterfacePath ==
    LET defaultPath == PathJoin(<<PROJECTS, ClusterGetter.Project, GLOBAL, NETWORKS,
                                  ClusterGetter.NetworkName>>)
        subnetProject == getProjectFromSubnet
    IN  IF IsNil(subnetProject) THEN defaultPath
        ELSE IF ClusterGetter.Project # Deref(subnetProject)
        THEN PathJoin(<<PROJECTS, Deref(subnetProject), GLOBAL, NETWORKS,
                        ClusterGetter.NetworkName>>)
        ELSE defaultPath

\* getSubnetworkPath dereferences Spec.Subnet unchecked: it is defined for a
\* subnet that is set (its only caller checks).
getSubnetworkPath ==
    LET defaultPath == PathJoin(<<REGIONS, ClusterGetter.Region, SUBNETWORKS,
                                  Deref(GCPMachine.Spec.Subnet)>>)
        subnetProject == getProjectFromSubnet
        chosen == IF ~IsNil(subnetProject) THEN Deref(GCPMachine.Spec.Subnet)
                  ELSE defaultPath
    IN  Split(chosen, Comma)[1]

(***************************************************************************)
(* Alias IP ranges                                                         *)
(***************************************************************************)
NoError == "nil"
ErrMultipleAliasBlocks == "invalid subnet spec (contains multiple alias range definitions)"
ErrInvalidAliasRange == "invalid IP alias range definition"
ErrUnableToParse == "unable to parse alias IP ranges from subnet spec"

NilSlice == [isNil |-> TRUE, items |-> <<>>]
Slice(items) == [isNil |-> FALSE, items |-> items]

\* One alias entry [name:]cidr split on ":".
AliasIpRange(r) ==
    LET aliasRangeSlice == Split(r, Colon)
    IN  IF Len(aliasRangeSlice) = 1
        THEN [SubnetworkRangeName |-> Empty, IpCidrRange |-> aliasRangeSlice[1]]
        ELSE [SubnetworkRangeName |-> aliasRangeSlice[1], IpCidrRange |-> aliasRangeSlice[2]]

\* ParseAliasFields returning, on a malformed entry, the ranges parsed before it
\* together with the error.
ParseAliasFieldsPartial(subnetSlice) ==
    LET hits == {i \in 1..Len(subnetSlice) : HasPrefix(subnetSlice[i], AliasesPrefix)}
    IN  IF hits = {} THEN [ranges |-> Slice(<<>>), err |-> NoError]
        ELSE LET s == subnetSlice[Min(hits)]
                 aliasRangesSlice == Split(TrimPrefix(s, AliasesPrefix), Semicolon)
                 bad == {j \in 1..Len(aliasRangesSlice) :
                            Len(Split(aliasRangesSlice[j], Colon)) > 2}
                 n == IF bad = {} THEN Len(aliasRangesSlice) ELSE Min(bad) - 1
             IN  [ranges |-> Slice([j \in 1..n |-> AliasIpRange(aliasRangesSlice[j])]),
                  err |-> IF bad # {} THEN ErrInvalidAliasRange ELSE NoError]

\* The loop over the ","-separated fields: the first field that begins with
\* "aliases=" is parsed and ends the loop; a field with more than two ":"-separated
\* parts aborts with an error and no ranges.
ParseAliasFields(subnetSlice) ==
    LET hits == {i \in 1..Len(subnetSlice) : HasPrefix(subnetSlice[i], AliasesPrefix)}
    IN  IF hits = {} THEN [ranges |-> Slice(<<>>), err |-> NoError]
        ELSE LET s == subnetSlice[Min(hits)]
                 aliasRangesSlice == Split(TrimPrefix(s, AliasesPrefix), Semicolon)
                 bad == {j \in 1..Len(aliasRangesSlice) :
                            Len(Split(aliasRangesSlice[j], Colon)) > 2}
             IN  IF bad # {} THEN [ranges |-> NilSlice, err |-> ErrInvalidAliasRange]
                 ELSE [ranges |-> Slice([j \in 1..Len(aliasRangesSlice) |->
                                            AliasIpRange(aliasRangesSlice[j])]),
                       err |-> NoError]

\* getInstanceAliasIpRanges rejecting only three or more alias blocks.
getInstanceAliasIpRangesTwoBlocks ==
    IF IsNil(GCPMachine.Spec.Subnet) THEN [ranges |-> Slice(<<>>), err |-> NoError]
    ELSE IF ~Contains(Deref(GCPMachine.Spec.Subnet), AliasMarker)
    THEN [ranges |-> Slice(<<>>), err |-> NoError]
    ELSE IF Count(Deref(GCPMachine.Spec.Subnet), AliasMarker) > 2
    THEN [ranges |-> NilSlice, err |-> ErrMultipleAliasBlocks]
    ELSE LET parsed == ParseAliasFields(Split(Deref(GCPMachine.Spec.Subnet), Comma))
         IN  IF parsed.err # NoError THEN parsed
             ELSE IF Len(parsed.ranges.items) = 0
             THEN [ranges |-> NilSlice, err |-> ErrUnableToParse]
             ELSE parsed

\* getInstanceAliasIpRanges returns (subnetSecondaryRanges, err).
getInstanceAliasIpRanges ==
    IF IsNil(GCPMachine.Spec.Subnet) THEN [ranges |-> Slice(<<>>), err |-> NoError]
    ELSE IF ~Contains(Deref(GCPMachine.Spec.Subnet), AliasMarker)
    THEN [ranges |-> Slice(<<>>), err |-> NoError]
    ELSE IF Count(Deref(GCPMachine.Spec.Subnet), AliasMarker) > 1
    THEN [ranges |-> NilSlice, err |-> ErrMultipleAliasBlocks]
    ELSE LET parsed == ParseAliasFields(Split(Deref(GCPMachine.Spec.Subnet), Comma))
         IN  IF parsed.err # NoError THEN parsed
             ELSE IF Len(parsed.ranges.items) = 0
             THEN [ranges |-> NilSlice, err |-> ErrUnableToParse]
             ELSE parsed

(***************************************************************************)
(* Network interface                                                       *)
(***************************************************************************)
ONE_TO_ONE_NAT == <<"O","N","E","_","T","O","_","O","N","E","_","N","A","T">>
ExternalNAT == <<"E","x","t","e","r","n","a","l"," ","N","A","T">>

\* InstanceNetworkInterfaceSpec returns the network interface, or nil when the
\* alias ranges of a specified subnet cannot be parsed.
\* Its two fmt.Printf calls write to standard output and change nothing else.
InstanceNetworkInterfaceSpec ==
    LET accessConfigs ==
            IF ~IsNil(GCPMachine.Spec.PublicIP) /\ Deref(GCPMachine.Spec.PublicIP)
            THEN <<[Type |-> ONE_TO_ONE_NAT, Name |-> ExternalNAT]>>
            ELSE <<>>
        networkInterface == [Network |-> getNetworkInterfacePath,
                             AccessConfigs |-> accessConfigs,
                             Subnetwork |-> Empty,
                             AliasIpRanges |-> NilSlice]
    IN  IF ~IsNil(GCPMachine.Spec.Subnet)
        THEN LET aliases == getInstanceAliasIpRanges
             IN  IF aliases.err = NoError
                 THEN Ptr([networkInterface EXCEPT !.Subnetwork = getSubnetworkPath,
                                                   !.AliasIpRanges = aliases.ranges])
                 ELSE Nil
        ELSE Ptr(networkInterface)

(***************************************************************************)
(* Disks                                                                   *)
(***************************************************************************)
DefaultAdditionalDiskSizeGb == 30
LocalSsdSizeGb == 375

SCRATCH == <<"S","C","R","A","T","C","H">>
NVME == <<"N","V","M","E">>

\* Int64Deref taking a zero for an unset size.
Int64DerefZeroUnset(ptr, def) == IF IsNil(ptr) \/ Deref(ptr) = 0 THEN def ELSE Deref(ptr)

\* pointer.Int64Deref
Int64Deref(ptr, def) == IF IsNil(ptr) THEN def ELSE Deref(ptr)

Digits == {"0", "1", "2", "3", "4", "5", "6", "7", "8", "9"}

\* The length of the longest prefix of s made of digits.
RECURSIVE DigitPrefixLen(_)
DigitPrefixLen(s) ==
    IF Len(s) > 0 /\ Head(s) \in Digits THEN 1 + DigitPrefixLen(Tail(s)) ELSE 0

\* semver's parseInt: a non-empty run of digits without a leading zero.
ParseInt(s) ==
    LET n == DigitPrefixLen(s)
    IN  [ok |-> n > 0 /\ (s[1] # "0" \/ n = 1),
         t |-> SubSeq(s, 1, n),
         rest |-> SubSeq(s, n + 1, Len(s))]

\* semver.MajorMinor for versions of the forms vMAJOR, vMAJOR.MINOR and
\* vMAJOR.MINOR.PATCH; any other string is invalid and yields "".
MajorMinor(v) ==
    IF Len(v) = 0 \/ v[1] # "v" THEN Empty
    ELSE LET major == ParseInt(Tail(v))
         IN  IF ~major.ok THEN Empty
             ELSE IF Len(major.rest) = 0 THEN <<"v">> \o major.t \o <<".", "0">>
             ELSE IF major.rest[1] # "." THEN Empty
             ELSE LET minor == ParseInt(Tail(major.rest))
                  IN  IF ~minor.ok THEN Empty
                      ELSE IF Len(minor.rest) = 0
                      THEN <<"v">> \o major.t \o <<".">> \o minor.t
                      ELSE IF minor.rest[1] # "." THEN Empty
                      ELSE LET patch == ParseInt(Tail(minor.rest))
                           IN  IF patch.ok /\ Len(patch.rest) = 0
                               THEN <<"v">> \o major.t \o <<".">> \o minor.t
                               ELSE Empty

\* strings.ReplaceAll for one-character old and new.
ReplaceAll(s, old, new) == [i \in 1..Len(s) |-> IF s[i] = old THEN new ELSE s[i]]

ImagePrefix == <<"c","a","p","i","-","u","b","u","n","t","u","-","1","8","0","4","-","k","8","s","-">>

\* InstanceImageSpec returns the boot disk.
InstanceImageSpec ==
    LET version == IF ~IsNil(Machine.Spec.Version) THEN Deref(Machine.Spec.Version) ELSE Empty
        image == ImagePrefix \o ReplaceAll(MajorMinor(version), ".", "-")
        sourceImage ==
            IF ~IsNil(GCPMachine.Spec.Image) THEN Deref(GCPMachine.Spec.Image)
            ELSE IF ~IsNil(GCPMachine.Spec.ImageFamily) THEN Deref(GCPMachine.Spec.ImageFamily)
            ELSE PathJoin(<<PROJECTS, ClusterGetter.Project, GLOBAL, IMAGES, FAMILY, image>>)
        diskType == IF ~IsNil(GCPMachine.Spec.RootDeviceType)
                    THEN Deref(GCPMachine.Spec.RootDeviceType)
                    ELSE PdStandardDiskType
    IN  [AutoDelete |-> TRUE,
         Boot |-> TRUE,
         Type |-> Empty,
         Interface |-> Empty,
         InitializeParams |-> [DiskSizeGb |-> GCPMachine.Spec.RootDeviceSize,
                               DiskType |-> PathJoin(<<ZONES, Zone, DISKTYPES, diskType>>),
                               SourceImage |-> sourceImage]]

\* One iteration of the loop of InstanceAdditionalDiskSpec, for a disk whose
\* DeviceType is set.
AdditionalDisk(disk) ==
    LET diskType == PathJoin(<<ZONES, Zone, DISKTYPES, Deref(disk.DeviceType)>>)
        additionalDisk == [AutoDelete |-> TRUE,
                           Boot |-> FALSE,
                           Type |-> Empty,
                           Interface |-> Empty,
                           InitializeParams |->
                               [DiskSizeGb |-> Int64Deref(disk.Size, DefaultAdditionalDiskSizeGb),
                                DiskType |-> diskType,
                                SourceImage |-> Empty]]
    IN  IF HasSuffix(diskType, LocalSsdDiskType)
        THEN [additionalDisk EXCEPT !.Type = SCRATCH,
                                    !.InitializeParams.DiskSizeGb = LocalSsdSizeGb,
                                    !.Interface = NVME]
        ELSE additionalDisk

\* InstanceAdditionalDiskSpec returns the additional disks in spec order.  The
\* DeviceType pointer of each disk is dereferenced unchecked: a disk without a
\* device type makes the call panic.
InstanceAdditionalDiskSpec ==
    LET disks == GCPMachine.Spec.AdditionalDisks
    IN  IF \E i \in 1..Len(disks) : IsNil(disks[i].DeviceType)
        THEN [panic |-> TRUE, disks |-> <<>>]
        ELSE [panic |-> FALSE, disks |-> [i \in 1..Len(disks) |-> AdditionalDisk(disks[i])]]

(***************************************************************************)
(* Service account, metadata                                               *)
(***************************************************************************)
DefaultEmail == <<"d","e","f","a","u","l","t">>
CloudPlatformScope == <<"c","l","o","u","d","-","p","l","a","t","f","o","r","m">>

InstanceServiceAccountsSpec ==
    IF ~IsNil(GCPMachine.Spec.ServiceAccount)
    THEN [Email |-> Deref(GCPMachine.Spec.ServiceAccount).Email,
          Scopes |-> Deref(GCPMachine.Spec.ServiceAccount).Scopes]
    ELSE [Email |-> DefaultEmail, Scopes |-> <<CloudPlatformScope>>]

InstanceAdditionalMetadataSpec ==
    [Items |-> [i \in 1..Len(GCPMachine.Spec.AdditionalMetadata) |->
                   [Key |-> GCPMachine.Spec.AdditionalMetadata[i].Key,
                    Value |-> GCPMachine.Spec.AdditionalMetadata[i].Value]]]

(***************************************************************************)
(* Enumerated policies of the machine spec                                 *)
(***************************************************************************)
IPForwardingDisabled == "Disabled"
SecureBootPolicyEnabled == "Enabled"
VirtualizedTrustedPlatformModulePolicyDisabled == "Disabled"
IntegrityMonitoringPolicyDisabled == "Disabled"
ConfidentialComputePolicyEnabled == "Enabled"
HostMaintenancePolicyMigrate == <<"M","i","g","r","a","t","e">>
HostMaintenancePolicyTerminate == <<"T","e","r","m","i","n","a","t","e">>
MIGRATE == <<"M","I","G","R","A","T","E">>
TERMINATE == <<"T","E","R","M","I","N","A","T","E">>

LowerCase == <<"a","b","c","d","e","f","g","h","i","j","k","l","m",
               "n","o","p","q","r","s","t","u","v","w","x","y","z">>
UpperCase == <<"A","B","C","D","E","F","G","H","I","J","K","L","M",
               "N","O","P","Q","R","S","T","U","V","W","X","Y","Z">>

ToUpperChar(c) ==
    IF \E i \in 1..Len(LowerCase) : LowerCase[i] = c
    THEN UpperCase[CHOOSE i \in 1..Len(LowerCase) : LowerCase[i] = c]
    ELSE c

\* strings.ToUpper
ToUpper(s) == [i \in 1..Len(s) |-> ToUpperChar(s[i])]

UnknownOnHostMaintenance == "Unknown OnHostMaintenance value"

(***************************************************************************)
(* InstanceSpec                                                            *)
(***************************************************************************)
\* The value the switch on Spec.OnHostMaintenance assigns, before the assignment
\* that follows the switch.
OnHostMaintenanceSwitch(policy) ==
    IF policy = HostMaintenancePolicyMigrate THEN MIGRATE
    ELSE IF policy = HostMaintenancePolicyTerminate THEN TERMINATE
    ELSE Empty

\* Scheduling.OnHostMaintenance as the switch alone leaves it, without the
\* assignment of the upper-cased raw value that follows the switch.
SchedulingOnHostMaintenanceSwitchOnly ==
    IF IsNil(GCPMachine.Spec.OnHostMaintenance) THEN Empty
    ELSE OnHostMaintenanceSwitch(Deref(GCPMachine.Spec.OnHostMaintenance))

\* Scheduling.OnHostMaintenance: the switch assigns first, then the upper-cased
\* raw value is assigned unconditionally.
SchedulingOnHostMaintenance ==
    IF IsNil(GCPMachine.Spec.OnHostMaintenance) THEN Empty
    ELSE LET switched == OnHostMaintenanceSwitch(Deref(GCPMachine.Spec.OnHostMaintenance))
             overwritten == ToUpper(Deref(GCPMachine.Spec.OnHostMaintenance))
         IN  overwritten

\* What InstanceSpec hands to log.Error.
InstanceSpecLog ==
    IF /\ ~IsNil(GCPMachine.Spec.OnHostMaintenance)
       /\ Deref(GCPMachine.Spec.OnHostMaintenance) \notin
              {HostMaintenancePolicyMigrate, HostMaintenancePolicyTerminate}
    THEN <<UnknownOnHostMaintenance>>
    ELSE <<>>

ShieldedInstanceConfigSpec ==
    IF IsNil(GCPMachine.Spec.ShieldedInstanceConfig) THEN Nil
    ELSE LET c == Deref(GCPMachine.Spec.ShieldedInstanceConfig)
         IN  Ptr([EnableSecureBoot |-> c.SecureBoot = SecureBootPolicyEnabled,
                  EnableVtpm |-> c.VirtualizedTrustedPlatformModule #
                                     VirtualizedTrustedPlatformModulePolicyDisabled,
                  EnableIntegrityMonitoring |-> c.IntegrityMonitoring #
                                                    IntegrityMonitoringPolicyDisabled])

\* The two tags InstanceSpec appends: "<cluster>-<role>" and "<cluster>".
NetworkTags == <<ClusterGetter.Name \o <<"-">> \o Role, ClusterGetter.Name>>

\* append(AdditionalNetworkTags, ...) writes the two tags into the cells behind
\* the slice when its array has room for both, and into a new array otherwise;
\* the slice in the spec keeps its length either way.
TagsArrayAppended ==
    IF Len(tagsArray) >= Len(NetworkTags)
    THEN NetworkTags \o SubSeq(tagsArray, Len(NetworkTags) + 1, Len(tagsArray))
    ELSE tagsArray

\* The slice append returns: the spec's tags followed by the two cells written,
\* read from the array the result shares with the spec when it had room.
TagsItems ==
    GCPMachine.Spec.AdditionalNetworkTags \o
        (IF Len(tagsArray) >= Len(NetworkTags)
         THEN SubSeq(TagsArrayAppended, 1, Len(NetworkTags))
         ELSE NetworkTags)

\* The descriptor InstanceSpec builds when none of its steps panics.  Labels
\* are built by infrav1.Build from the cluster name, the role and the additional
\* labels, and are not part of the model.
InstanceDescriptor ==
    LET nic == InstanceNetworkInterfaceSpec
    IN  [Name |-> Name,
         Zone |-> Zone,
         MachineType |-> PathJoin(<<ZONES, Zone, MACHINETYPES, GCPMachine.Spec.InstanceType>>),
         Tags |-> [Items |-> TagsItems],
         Scheduling |-> [Preemptible |-> GCPMachine.Spec.Preemptible,
                         OnHostMaintenance |-> SchedulingOnHostMaintenance],
         CanIpForward |-> ~(/\ ~IsNil(GCPMachine.Spec.IPForwarding)
                            /\ Deref(GCPMachine.Spec.IPForwarding) = IPForwardingDisabled),
         ShieldedInstanceConfig |-> ShieldedInstanceConfigSpec,
         ConfidentialInstanceConfig |->
             IF ~IsNil(GCPMachine.Spec.ConfidentialCompute)
             THEN Ptr([EnableConfidentialCompute |->
                          Deref(GCPMachine.Spec.ConfidentialCompute) =
                              ConfidentialComputePolicyEnabled])
             ELSE Nil,
         Disks |-> <<InstanceImageSpec>> \o InstanceAdditionalDiskSpec.disks,
         Metadata |-> InstanceAdditionalMetadataSpec,
         ServiceAccounts |-> <<InstanceServiceAccountsSpec>>,
         NetworkInterfaces |-> IF IsNil(nic) THEN <<>> ELSE <<Deref(nic)>>]

\* InstanceSpec returns the instance descriptor; it has no error result.  A
\* panic of InstanceAdditionalDiskSpec unwinds it without a descriptor.
InstanceSpec ==
    IF InstanceAdditionalDiskSpec.panic
    THEN [panic |-> TRUE, instance |-> Nil, log |-> InstanceSpecLog]
    ELSE [panic |-> FALSE, instance |-> Ptr(InstanceDescriptor), log |-> InstanceSpecLog]

(***************************************************************************)
(* Inputs                                                                  *)
(***************************************************************************)
\* The number of fragments a subnet string is put together from.
MaxFrags == 3

\* Pieces of the subnet grammar <locator>[,aliases=<entry>;...], and of strings
\* outside it.
SubnetFragments ==
    { PROJECTS \o <<"/", "h">>,
      <<"/">>,
      <<"s">>,
      AliasesPrefix,
      <<",">>,
      AliasMarker,
      <<"n", ":", "c">>,
      <<";", "d">>,
      <<":", ":">> }

RECURSIVE Concat(_)
Concat(ss) == IF Len(ss) = 0 THEN Empty ELSE Head(ss) \o Concat(Tail(ss))

StringsOf(fragments, n) ==
    {Concat(fs) : fs \in UNION {[1..k -> fragments] : k \in 0..n}}

SubnetStrings == StringsOf(SubnetFragments, MaxFrags)

ProjectNames == {<<"h">>, <<"p">>}

DefaultMachine ==
    [Spec |-> [Version |-> Nil, FailureDomain |-> Nil], IsControlPlane |-> FALSE]

DefaultCluster ==
    [Project |-> <<"p">>,
     Region |-> <<"r">>,
     NetworkName |-> <<"n">>,
     Name |-> <<"c">>,
     FailureDomains |-> {<<"r", "-", "a">>, <<"r", "-", "b">>}]

\* A machine spec with every optional field absent.
DefaultGCPMachine ==
    [Name |-> <<"m">>,
     Spec |-> [InstanceType |-> <<"n", "1">>,
               Subnet |-> Nil,
               PublicIP |-> Nil,
               IPForwarding |-> Nil,
               AdditionalDisks |-> <<>>,
               AdditionalNetworkTags |-> <<>>,
               AdditionalMetadata |-> <<>>,
               Image |-> Nil,
               ImageFamily |-> Nil,
               RootDeviceSize |-> 0,
               RootDeviceType |-> Nil,
               ServiceAccount |-> Nil,
               Preemptible |-> FALSE,
               OnHostMaintenance |-> Nil,
               ShieldedInstanceConfig |-> Nil,
               ConfidentialCompute |-> Nil]]

NoCall == [call |-> "none", val |-> <<>>]

\* The orders the first range can take: every order of the cluster's failure
\* domains for a machine that names none, and no order where Zone never ranges.
ZoneRangeOrdersAtStart ==
    IF IsNil(Machine.Spec.FailureDomain)
    THEN RangeOrders(ClusterGetter.FailureDomains)
    ELSE {<<>>}

(***************************************************************************)
(* Calls: each records the method called and what it returned.  A call     *)
(* that asks for the zone ranges over the failure-domain map in the order  *)
(* rangeOrder, and the runtime is free to take another order for the next. *)
(***************************************************************************)
CallGetInstanceAliasIpRanges ==
    /\ ret' = [call |-> "getInstanceAliasIpRanges", val |-> getInstanceAliasIpRanges]
    /\ UNCHANGED <<Machine, GCPMachine, ClusterGetter, rangeOrder, tagsArray>>

CallGetNetworkInterfacePath ==
    /\ ret' = [call |-> "getNetworkInterfacePath", val |-> getNetworkInterfacePath]
    /\ UNCHANGED <<Machine, GCPMachine, ClusterGetter, rangeOrder, tagsArray>>

\* Called, as in InstanceNetworkInterfaceSpec, for a subnet that is set.
CallGetSubnetworkPath ==
    /\ ~IsNil(GCPMachine.Spec.Subnet)
    /\ ret' = [call |-> "getSubnetworkPath", val |-> getSubnetworkPath]
    /\ UNCHANGED <<Machine, GCPMachine, ClusterGetter, rangeOrder, tagsArray>>

CallInstanceNetworkInterfaceSpec ==
    /\ ret' = [call |-> "InstanceNetworkInterfaceSpec", val |-> InstanceNetworkInterfaceSpec]
    /\ UNCHANGED <<Machine, GCPMachine, ClusterGetter, rangeOrder, tagsArray>>

CallInstanceAdditionalDiskSpec ==
    /\ ret' = [call |-> "InstanceAdditionalDiskSpec", val |-> InstanceAdditionalDiskSpec]
    /\ rangeOrder' \in IF Len(GCPMachine.Spec.AdditionalDisks) > 0
                       THEN ZoneRangeOrders
                       ELSE {rangeOrder}
    /\ UNCHANGED <<Machine, GCPMachine, ClusterGetter, tagsArray>>

\* InstanceSpec writes nothing into the objects of the scope; the append of
\* the tags is its only write, into the array behind the spec's tags.
CallInstanceSpec ==
    /\ ret' = [call |-> "InstanceSpec", val |-> InstanceSpec]
    /\ tagsArray' = TagsArrayAppended
    /\ rangeOrder' \in ZoneRangeOrders
    /\ UNCHANGED <<Machine, GCPMachine, ClusterGetter>>

(***************************************************************************)
(* SpecSubnet: the subnet reference of a machine whose subnet string is    *)
(* any string of up to MaxFrags fragments, or absent                       *)
(***************************************************************************)
InitSubnet ==
    /\ Machine = DefaultMachine
    /\ \E subnet \in Opt(SubnetStrings) :
           GCPMachine = [DefaultGCPMachine EXCEPT !.Spec.Subnet = subnet]
    /\ \E project \in ProjectNames :
           ClusterGetter = [DefaultCluster EXCEPT !.Project = project]
    /\ ret = NoCall
    /\ rangeOrder = SortStrings(CHOOSE o \in RangeOrders(DefaultCluster.FailureDomains) : TRUE)
    /\ tagsArray = <<>>

NextSubnet ==
    \/ CallGetInstanceAliasIpRanges
    \/ CallGetNetworkInterfacePath
    \/ CallGetSubnetworkPath
    \/ CallInstanceNetworkInterfaceSpec

SpecSubnet == InitSubnet /\ [][NextSubnet]_vars

(***************************************************************************)
(* SpecDisks: the additional disks of a machine with up to MaxDisks disks, *)
(* each with or without a size and a device type                           *)
(***************************************************************************)
MaxDisks == 2

DiskSizes == {0, 50}

DiskTypes == {PdStandardDiskType, PdSsdDiskType, LocalSsdDiskType}

AttachedDiskSpecs == [Size : Opt(DiskSizes), DeviceType : Opt(DiskTypes)]

ZoneNames == {<<"z">>}

InitDisks ==
    /\ \E fd \in Opt(ZoneNames) :
           Machine = [DefaultMachine EXCEPT !.Spec.FailureDomain = fd]
    /\ \E disks \in UNION {[1..k -> AttachedDiskSpecs] : k \in 0..MaxDisks} :
           GCPMachine = [DefaultGCPMachine EXCEPT !.Spec.AdditionalDisks = disks]
    /\ ClusterGetter = DefaultCluster
    /\ ret = NoCall
    /\ rangeOrder \in ZoneRangeOrdersAtStart
    /\ tagsArray = <<>>

NextDisks == CallInstanceAdditionalDiskSpec

SpecDisks == InitDisks /\ [][NextDisks]_vars

(***************************************************************************)
(* Spec: the whole descriptor of a machine in which every optional field   *)
(* is, independently, absent or set, in a cluster with one failure domain  *)
(* (SpecRepeat has the clusters whose map can be ranged in several orders) *)
(***************************************************************************)
SubnetSamples ==
    { Nil,
      Ptr(<<"s">>),
      Ptr(PROJECTS \o <<"/", "h", "/", "s">> \o AliasMarker \o <<"n", ":", "c">>),
      Ptr(<<"s">> \o AliasMarker \o <<"c">> \o AliasMarker \o <<"d">>),
      Ptr(<<"s">> \o AliasMarker \o <<"n", ":", "c", ":", "d">>) }

DiskSamples ==
    { <<>>,
      <<[Size |-> Nil, DeviceType |-> Ptr(PdStandardDiskType)]>>,
      <<[Size |-> Ptr(50), DeviceType |-> Nil]>> }

HostMaintenanceSamples ==
    Opt({HostMaintenancePolicyMigrate, HostMaintenancePolicyTerminate, <<"F", "o", "o">>})

ShieldedSamples ==
    Opt({[SecureBoot |-> SecureBootPolicyEnabled,
          VirtualizedTrustedPlatformModule |-> VirtualizedTrustedPlatformModulePolicyDisabled,
          IntegrityMonitoring |-> IntegrityMonitoringPolicyDisabled]})

ServiceAccountSamples == Opt({[Email |-> <<"e">>, Scopes |-> <<>>]})

VersionSamples == Opt({<<"v", "1", ".", "2", "2", ".", "3">>})

MachineSpecs ==
    [InstanceType : {<<"n", "1">>},
     Subnet : SubnetSamples,
     PublicIP : Opt({TRUE}),
     IPForwarding : Opt({IPForwardingDisabled}),
     AdditionalDisks : DiskSamples,
     AdditionalNetworkTags : {<<>>},
     AdditionalMetadata : {<<>>},
     Image : Opt({<<"i">>}),
     ImageFamily : Opt({<<"f">>}),
     RootDeviceSize : {0},
     RootDeviceType : Opt({PdSsdDiskType}),
     ServiceAccount : ServiceAccountSamples,
     Preemptible : {FALSE},
     OnHostMaintenance : HostMaintenanceSamples,
     ShieldedInstanceConfig : ShieldedSamples,
     ConfidentialCompute : Opt({ConfidentialComputePolicyEnabled})]

Init ==
    /\ \E version \in VersionSamples, fd \in Opt(ZoneNames) :
           Machine = [Spec |-> [Version |-> version, FailureDomain |-> fd],
                      IsControlPlane |-> FALSE]
    /\ \E spec \in MachineSpecs : GCPMachine = [Name |-> <<"m">>, Spec |-> spec]
    /\ ClusterGetter = [DefaultCluster EXCEPT !.FailureDomains = {<<"r", "-", "a">>}]
    /\ ret = NoCall
    /\ rangeOrder \in ZoneRangeOrdersAtStart
    /\ tagsArray = <<>>

Next == CallInstanceSpec

Spec == Init /\ [][Next]_vars

(***************************************************************************)
(* SpecRepeat: InstanceSpec called again and again on one scope, for       *)
(* clusters with up to MaxZones failure domains, specs with up to MaxTags  *)
(* additional network tags, and up to MaxSpare cells of room behind them   *)
(***************************************************************************)
MaxZones == 2
MaxTags == 1
MaxSpare == 3

ZonePool == {<<"r", "-", "b">>, <<"r", "-", "a">>, <<"r", "-", "c">>}

FailureDomainMaps == {fd \in SUBSET ZonePool : Cardinality(fd) <= MaxZones}

TagNames == {<<"t">>}

TagLists == UNION {[1..k -> TagNames] : k \in 0..MaxTags}

\* What the cells behind the tags hold before the first append: the zero
\* string, or a string left there earlier.
SpareCells == {Empty, <<"o">>}

SpareArrays == UNION {[1..k -> SpareCells] : k \in 0..MaxSpare}

InitRepeat ==
    /\ \E fd \in Opt(ZoneNames), cp \in BOOLEAN :
           Machine = [DefaultMachine EXCEPT !.Spec.FailureDomain = fd,
                                            !.IsControlPlane = cp]
    /\ \E subnet \in SubnetSamples, disks \in DiskSamples, tags \in TagLists :
           GCPMachine = [DefaultGCPMachine EXCEPT !.Spec.Subnet = subnet,
                                                  !.Spec.AdditionalDisks = disks,
                                                  !.Spec.AdditionalNetworkTags = tags]
    /\ \E fd \in FailureDomainMaps :
           ClusterGetter = [DefaultCluster EXCEPT !.FailureDomains = fd]
    /\ ret = NoCall
    /\ rangeOrder \in ZoneRangeOrdersAtStart
    /\ tagsArray \in SpareArrays

NextRepeat == CallInstanceSpec

SpecRepeat == InitRepeat /\ [][NextRepeat]_vars

(***************************************************************************)
(* The subnet grammar <locator>[,aliases=<entry>;...;<entry>], read off    *)
(* the string independently of the parser                                  *)
(***************************************************************************)
Subnet == Deref(GCPMachine.Spec.Subnet)

MarkerPositions(s) == Occurrences(s, AliasMarker)

\* The text before the first marker (the whole string when there is none).
LocatorOf(s) ==
    IF MarkerPositions(s) = {} THEN s ELSE SubSeq(s, 1, Min(MarkerPositions(s)) - 1)

\* The text after the first marker.
AliasBlockOf(s) == SubSeq(s, Min(MarkerPositions(s)) + Len(AliasMarker), Len(s))

EntriesOf(s) == Split(AliasBlockOf(s), Semicolon)

Positions(s, c) == {i \in 1..Len(s) : s[i] = c}

UpToFirst(s, c) == IF Positions(s, c) = {} THEN s ELSE SubSeq(s, 1, Min(Positions(s, c)) - 1)

AfterFirst(s, c) == SubSeq(s, Min(Positions(s, c)) + 1, Len(s))

\* An entry <cidr> or <name>:<cidr>.
WellFormedEntry(e) ==
    /\ Positions(e, Comma) = {}
    /\ Cardinality(Positions(e, Colon)) <= 1
    /\ Len(IF Positions(e, Colon) = {} THEN e ELSE AfterFirst(e, Colon)) > 0
    /\ Positions(e, Colon) # {} => Len(UpToFirst(e, Colon)) > 0

EntryRange(e) ==
    IF Positions(e, Colon) = {}
    THEN [SubnetworkRangeName |-> Empty, IpCidrRange |-> e]
    ELSE [SubnetworkRangeName |-> UpToFirst(e, Colon), IpCidrRange |-> AfterFirst(e, Colon)]

\* The string begins with projects/ followed by a non-empty segment.
BeginsWithProject(s) ==
    /\ HasPrefix(s, PROJECTS \o <<Slash>>)
    /\ Len(s) > Len(PROJECTS) + 1
    /\ s[Len(PROJECTS) + 2] # Slash

Called(method) == ret.call = method

(***************************************************************************)
(* Claims                                                                  *)
(***************************************************************************)

\* C1: whenever alias parsing of the machine's subnet string fails, InstanceSpec
\* produces no descriptor at all; it never returns a descriptor that only lacks
\* the network interface.
C1_NoPartialDescriptor ==
    (Called("InstanceSpec") /\ getInstanceAliasIpRanges.err # NoError)
        => IsNil(ret.val.instance)

\* C2 (as stated): the subnetwork path is the locator verbatim whenever the
\* locator contains a "/", whether or not it begins with projects/; otherwise it
\* is the path regions/<region>/subnetworks/<name>.  The locator is read as the
\* subnet string up to its first comma, and the path of a bare name as path.Join
\* builds it, so that the statement differs from the code in nothing but the
\* test for a "/".
C2_VerbatimWheneverSlash ==
    Called("getSubnetworkPath") =>
        ret.val = IF Contains(UpToFirst(Subnet, Comma), <<Slash>>)
                  THEN UpToFirst(Subnet, Comma)
                  ELSE UpToFirst(PathJoin(<<REGIONS, ClusterGetter.Region, SUBNETWORKS,
                                            Subnet>>), Comma)

\* C2 (amended): the subnetwork path is the subnet string up to its first comma
\* whenever the string begins with projects/ followed by a non-empty segment;
\* for every other string, with or without a "/", it is the cleaned path
\* regions/<region>/subnetworks/<subnet string> up to its first comma.
C2_VerbatimWhenProject ==
    Called("getSubnetworkPath") =>
        ret.val = IF BeginsWithProject(Subnet)
                  THEN UpToFirst(Subnet, Comma)
                  ELSE UpToFirst(PathJoin(<<REGIONS, ClusterGetter.Region, SUBNETWORKS,
                                            Subnet>>), Comma)

\* C2 witness: getSubnetworkPath has returned for a locator that contains a "/"
\* and does not begin with projects/, and the locator was put behind the
\* region's prefix.
C2_Witness ==
    /\ Called("getSubnetworkPath")
    /\ Subnet = <<"s", "/", "s">>
    /\ ret.val = REGIONS \o <<"/">> \o ClusterGetter.Region \o <<"/">> \o SUBNETWORKS
                     \o <<"/", "s", "/", "s">>

\* C3: for a subnet string without the marker ,aliases= (other commas allowed),
\* parsing succeeds with an empty alias list and the subnetwork path is built
\* from the whole string, untruncated.
C3_WholeStringWithoutMarker ==
    (Called("getSubnetworkPath") /\ MarkerPositions(Subnet) = {}) =>
        /\ getInstanceAliasIpRanges = [ranges |-> Slice(<<>>), err |-> NoError]
        /\ ret.val = IF BeginsWithProject(Subnet) THEN Subnet
                     ELSE PathJoin(<<REGIONS, ClusterGetter.Region, SUBNETWORKS, Subnet>>)

\* C4: for a subnet string with exactly one marker followed by N well-formed
\* entries, parsing returns exactly the N ranges of the entries after the marker,
\* in order, for any locator.
C4_RangesOfEntriesAfterMarker ==
    (/\ Called("getInstanceAliasIpRanges")
     /\ ~IsNil(GCPMachine.Spec.Subnet)
     /\ Cardinality(MarkerPositions(Subnet)) = 1
     /\ \A i \in 1..Len(EntriesOf(Subnet)) : WellFormedEntry(EntriesOf(Subnet)[i]))
        => /\ ret.val.err = NoError
           /\ ret.val.ranges.items =
                  [i \in 1..Len(EntriesOf(Subnet)) |-> EntryRange(EntriesOf(Subnet)[i])]

\* C5: when the alias block after the single marker has an entry with two or
\* more ":", wherever in the block, parsing fails with the invalid-alias-range
\* error and returns no ranges.
C5_MalformedEntryFails ==
    (/\ Called("getInstanceAliasIpRanges")
     /\ ~IsNil(GCPMachine.Spec.Subnet)
     /\ Cardinality(MarkerPositions(Subnet)) = 1
     /\ \E i \in 1..Len(EntriesOf(Subnet)) :
            Cardinality(Positions(EntriesOf(Subnet)[i], Colon)) >= 2)
        => /\ ret.val.err = ErrInvalidAliasRange
           /\ ret.val.ranges = NilSlice

\* C6: when the marker ,aliases= occurs more than once in the subnet string,
\* parsing fails with the multiple-alias-blocks error and returns no ranges,
\* whether the entries are well-formed or not.
C6_MultipleMarkersFail ==
    (/\ Called("getInstanceAliasIpRanges")
     /\ ~IsNil(GCPMachine.Spec.Subnet)
     /\ Cardinality(MarkerPositions(Subnet)) > 1)
        => /\ ret.val.err = ErrMultipleAliasBlocks
           /\ ret.val.ranges = NilSlice

\* C6 witness: the parser has returned the multiple-alias-blocks error for a
\* string with two markers whose first block holds an entry with two ":".
C6_Witness ==
    /\ Called("getInstanceAliasIpRanges")
    /\ ~IsNil(GCPMachine.Spec.Subnet)
    /\ Subnet = AliasMarker \o <<":", ":">> \o AliasMarker
    /\ ret.val.err = ErrMultipleAliasBlocks

\* The project the network path is claimed to carry.
C7_ClaimedProject ==
    IF IsNil(GCPMachine.Spec.Subnet) THEN ClusterGetter.Project
    ELSE LET loc == LocatorOf(Subnet)
             seg == UpToFirst(SubSeq(loc, Len(PROJECTS) + 2, Len(loc)), Slash)
         IN  IF HasPrefix(loc, PROJECTS \o <<Slash>>) /\ Len(seg) > 0
                 /\ seg # ClusterGetter.Project
             THEN seg
             ELSE ClusterGetter.Project

\* C7: the network path is always projects/<P>/global/networks/<network name>,
\* P being the project segment of a full-path locator when it differs from the
\* cluster project, and the cluster project in every other case.
C7_NetworkPathProject ==
    Called("getNetworkInterfacePath") =>
        ret.val = PROJECTS \o <<Slash>> \o C7_ClaimedProject \o <<Slash>> \o GLOBAL
                      \o <<Slash>> \o NETWORKS \o <<Slash>> \o ClusterGetter.NetworkName

\* C8: apart from subnet parse failures InstanceSpec never fails: whatever
\* optional fields are absent, it completes and returns a descriptor.
C8_CompletesWithDefaults ==
    (Called("InstanceSpec") /\ getInstanceAliasIpRanges.err = NoError)
        => ~ret.val.panic /\ ~IsNil(ret.val.instance)

\* C9: the produced list has one disk per spec entry, in spec order; a disk
\* whose resolved type path ends in local-ssd has size 375, category SCRATCH and
\* interface NVME whatever size was requested; any other disk has the requested
\* size when one is given (an explicit zero included), 30 when none is, and
\* category and interface left unset.
C9_AdditionalDisks ==
    (Called("InstanceAdditionalDiskSpec") /\ ~ret.val.panic) =>
        /\ Len(ret.val.disks) = Len(GCPMachine.Spec.AdditionalDisks)
        /\ \A i \in 1..Len(ret.val.disks) :
               LET disk == GCPMachine.Spec.AdditionalDisks[i]
                   out == ret.val.disks[i]
               IN  /\ out.InitializeParams.DiskType =
                          ZONES \o <<Slash>> \o Zone \o <<Slash>> \o DISKTYPES \o <<Slash>>
                              \o Deref(disk.DeviceType)
                   /\ IF HasSuffix(out.InitializeParams.DiskType, LocalSsdDiskType)
                      THEN /\ out.InitializeParams.DiskSizeGb = 375
                           /\ out.Type = SCRATCH
                           /\ out.Interface = NVME
                      ELSE /\ out.InitializeParams.DiskSizeGb =
                                  (IF IsNil(disk.Size) THEN 30 ELSE Deref(disk.Size))
                           /\ out.Type = Empty
                           /\ out.Interface = Empty

\* C9 witness: the list has been produced for a local-ssd disk with a requested
\* size of 50 followed by a pd-ssd disk with an explicit size of zero.
C9_Witness ==
    /\ Called("InstanceAdditionalDiskSpec")
    /\ GCPMachine.Spec.AdditionalDisks =
           <<[Size |-> Ptr(50), DeviceType |-> Ptr(LocalSsdDiskType)],
             [Size |-> Ptr(0), DeviceType |-> Ptr(PdSsdDiskType)]>>
    /\ ~ret.val.panic
    /\ ret.val.disks[1].InitializeParams.DiskSizeGb = 375
    /\ ret.val.disks[2].InitializeParams.DiskSizeGb = 0

\* C10: when the subnet string contains the marker ,aliases=, the parser fails
\* or returns at least one alias range, never an empty list; and whenever it
\* fails it returns no ranges at all.
C10_MarkerNeverEmpty ==
    Called("getInstanceAliasIpRanges") =>
        /\ ret.val.err # NoError => ret.val.ranges = NilSlice
        /\ (~IsNil(GCPMachine.Spec.Subnet) /\ MarkerPositions(Subnet) # {})
               => (ret.val.err # NoError \/ Len(ret.val.ranges.items) >= 1)

\* C10 witness: the parser has succeeded on a string that ends with the marker,
\* with the single range of the empty entry behind it.
C10_Witness ==
    /\ Called("getInstanceAliasIpRanges")
    /\ ~IsNil(GCPMachine.Spec.Subnet)
    /\ Subnet = <<"s">> \o AliasMarker
    /\ ret.val.err = NoError
    /\ ret.val.ranges.items = <<[SubnetworkRangeName |-> Empty, IpCidrRange |-> Empty]>>

\* The upper-case form of a string, letter by letter from the ranks of the
\* letters: a lower-case letter stands 26 places behind its capital.
UpperCased(str) ==
    [i \in 1..Len(str) |->
        IF CharRank(str[i]) >= CharRank("a") /\ CharRank(str[i]) <= CharRank("z")
        THEN CharOrder[CharRank(str[i]) - 26]
        ELSE str[i]]

\* C12: when a host-maintenance policy is specified, Scheduling.OnHostMaintenance
\* of the descriptor is the upper-cased raw value, recognised or not; an
\* unrecognised value is logged and does not abort the construction (only an
\* additional disk without device type does); with no policy the field is unset
\* and nothing is logged.
C12_OnHostMaintenanceUpperCased ==
    Called("InstanceSpec") =>
        LET policy == GCPMachine.Spec.OnHostMaintenance
            recognised == {HostMaintenancePolicyMigrate, HostMaintenancePolicyTerminate}
        IN  /\ ret.val.panic <=>
                   \E i \in 1..Len(GCPMachine.Spec.AdditionalDisks) :
                       IsNil(GCPMachine.Spec.AdditionalDisks[i].DeviceType)
            /\ ret.val.log = IF ~IsNil(policy) /\ Deref(policy) \notin recognised
                             THEN <<UnknownOnHostMaintenance>>
                             ELSE <<>>
            /\ ~ret.val.panic =>
                   Deref(ret.val.instance).Scheduling.OnHostMaintenance =
                       IF IsNil(policy) THEN Empty ELSE UpperCased(Deref(policy))

\* C12 witness: InstanceSpec has returned a descriptor for the unrecognised
\* policy Foo, with FOO in the field and the value logged.
C12_Witness ==
    /\ Called("InstanceSpec")
    /\ GCPMachine.Spec.OnHostMaintenance = Ptr(<<"F", "o", "o">>)
    /\ ~ret.val.panic
    /\ Deref(ret.val.instance).Scheduling.OnHostMaintenance = <<"F", "O", "O">>
    /\ ret.val.log = <<UnknownOnHostMaintenance>>

\* C11: a call of InstanceSpec that follows a call of InstanceSpec on the same
\* scope returns what the earlier call returned (the same descriptor, or none
\* both times), whatever order the range over the failure domains takes and
\* whatever the earlier append left behind the tags; and no call of InstanceSpec
\* changes the machine or the GCP machine with its spec.
C11_RepeatedInstanceSpec ==
    [][ (ret'.call = "InstanceSpec") =>
            /\ Machine' = Machine
            /\ GCPMachine' = GCPMachine
            /\ Called("InstanceSpec") => ret'.val = ret.val ]_vars

\* C11 witness: InstanceSpec has returned a descriptor for a machine that names
\* no failure domain, in a cluster whose next range does not start with the
\* zone chosen, with additional tags in the spec and the two appended tags
\* written into the cells behind them.
C11_Witness ==
    /\ Called("InstanceSpec")
    /\ ~ret.val.panic
    /\ IsNil(Machine.Spec.FailureDomain)
    /\ Cardinality(ClusterGetter.FailureDomains) > 1
    /\ rangeOrder[1] # Deref(ret.val.instance).Zone
    /\ Len(GCPMachine.Spec.AdditionalNetworkTags) > 0
    /\ Len(tagsArray) >= Len(NetworkTags)
    /\ SubSeq(tagsArray, 1, Len(NetworkTags)) = NetworkTags
    /\ Deref(ret.val.instance).Tags.Items =
           GCPMachine.Spec.AdditionalNetworkTags \o NetworkTags

====
